---- MODULE Spec2Model ----
(***************************************************************************)
(* The MEPA interpreter of mepa.py: the assembler (MepaInterpreter.prepare),*)
(* the fetch-decode-execute step (execute_step), the run_all loop and the   *)
(* debug controller (start_debug / debug_next).                             *)
(*                                                                          *)
(* Text is modelled character by character: a raw source line is a sequence *)
(* of one-character strings, a token is a non-empty sequence of characters  *)
(* without blanks.  Python lists are sequences (the top of the operand      *)
(* stack is the last element), Python dicts are functions whose DOMAIN is   *)
(* the set of keys.                                                         *)
(***************************************************************************)
EXTENDS Integers, Sequences, FiniteSets, TLC

\* ------------------------------------------------------------------------
\* Bounds of the model
\* ------------------------------------------------------------------------
\* CRCT operands of the arithmetic programs range over -MaxVal..MaxVal.
MaxVal == 2
\* execute_step calls allowed in one session (cuts looping programs).
MaxSteps == 7

\* ------------------------------------------------------------------------
\* Characters and str methods
\* ------------------------------------------------------------------------
LowerCase == <<"a","b","c","d","e","f","g","h","i","j","k","l","m",
               "n","o","p","q","r","s","t","u","v","w","x","y","z">>
UpperCase == <<"A","B","C","D","E","F","G","H","I","J","K","L","M",
               "N","O","P","Q","R","S","T","U","V","W","X","Y","Z">>
Digits == <<"0","1","2","3","4","5","6","7","8","9">>

\* str.upper() on one character.
UpperChar(c) ==
    IF \E i \in 1..Len(LowerCase) : LowerCase[i] = c
    THEN UpperCase[CHOOSE i \in 1..Len(LowerCase) : LowerCase[i] = c]
    ELSE c

\* str.upper()
Upper(s) == [i \in 1..Len(s) |-> UpperChar(s[i])]

IsSpace(c) == c = " "

\* str.strip(): drop the blanks at both ends.
RECURSIVE LStrip(_)
LStrip(s) == IF s # <<>> /\ IsSpace(s[1]) THEN LStrip(Tail(s)) ELSE s

RECURSIVE RStrip(_)
RStrip(s) ==
    IF s # <<>> /\ IsSpace(s[Len(s)]) THEN RStrip(SubSeq(s, 1, Len(s) - 1)) ELSE s

Strip(s) == RStrip(LStrip(s))

\* raw.split('#', 1)[0]: the text before the first '#'.
RECURSIVE BeforeHash(_)
BeforeHash(s) ==
    IF s = <<>> \/ s[1] = "#" THEN <<>> ELSE <<s[1]>> \o BeforeHash(Tail(s))

HasHash(s) == \E i \in 1..Len(s) : s[i] = "#"

\* The first blank-free run of s (s starts with a non-blank).
RECURSIVE FirstWord(_)
FirstWord(s) ==
    IF s = <<>> \/ IsSpace(s[1]) THEN <<>> ELSE <<s[1]>> \o FirstWord(Tail(s))

\* str.split(): the maximal blank-free runs, in order.
RECURSIVE Split(_)
Split(s) ==
    LET t == LStrip(s) IN
    IF t = <<>> THEN <<>>
    ELSE LET w == FirstWord(t) IN <<w>> \o Split(SubSeq(t, Len(w) + 1, Len(t)))

\* int(tok) succeeds: an optional sign, then one or more decimal digits.
IsDigit(c) == \E i \in 1..Len(Digits) : Digits[i] = c
DigitVal(c) == (CHOOSE i \in 1..Len(Digits) : Digits[i] = c) - 1

IntBody(tok) == IF tok # <<>> /\ tok[1] \in {"+", "-"} THEN Tail(tok) ELSE tok

IsInt(tok) ==
    /\ IntBody(tok) # <<>>
    /\ \A i \in 1..Len(IntBody(tok)) : IsDigit(IntBody(tok)[i])

RECURSIVE DigitsVal(_)
DigitsVal(ds) ==
    IF ds = <<>> THEN 0
    ELSE 10 * DigitsVal(SubSeq(ds, 1, Len(ds) - 1)) + DigitVal(ds[Len(ds)])

\* int(tok), for a tok with IsInt(tok).
IntOf(tok) ==
    IF tok[1] = "-" THEN 0 - DigitsVal(IntBody(tok)) ELSE DigitsVal(IntBody(tok))

\* ------------------------------------------------------------------------
\* Assembly: MepaInterpreter.prepare
\* ------------------------------------------------------------------------
\* sorted(keys)
RECURSIVE Sorted(_)
Sorted(S) ==
    IF S = {} THEN <<>>
    ELSE LET m == CHOOSE x \in S : \A y \in S : x <= y
         IN <<m>> \o Sorted(S \ {m})

\* The raw text of a line after strip and comment removal.
CleanLine(raw) ==
    LET r == Strip(raw) IN
    IF HasHash(r) THEN Strip(BeforeHash(r)) ELSE r

\* tokens[0].endswith(':') with a non-empty name before the colon.
DefinesLabel(tokens) ==
    /\ tokens # <<>>
    /\ tokens[1][Len(tokens[1])] = ":"
    /\ Len(tokens[1]) > 1

LabelName(tokens) == SubSeq(tokens[1], 1, Len(tokens[1]) - 1)

\* dict assignment d[k] = v
Put(d, k, v) == [x \in DOMAIN d \cup {k} |-> IF x = k THEN v ELSE d[x]]

\* An assembly that records a label standing alone on its line without
\* appending an instruction for that line.
PrepareLine_LabelOnlySkipped(acc, num, raw) ==
    LET clean  == CleanLine(raw)
        tokens == Split(clean)
    IN  IF clean = <<>> THEN acc
        ELSE IF DefinesLabel(tokens)
        THEN [instructions |-> IF Tail(tokens) = <<>> THEN acc.instructions
                               ELSE Append(acc.instructions, <<num, Tail(tokens)>>),
              labels       |-> Put(acc.labels, Upper(LabelName(tokens)), num)]
        ELSE [instructions |-> Append(acc.instructions, <<num, tokens>>),
              labels       |-> acc.labels]

\* An assembly that keeps the first definition of a label.
PrepareLine_FirstLabelWins(acc, num, raw) ==
    LET clean  == CleanLine(raw)
        tokens == Split(clean)
    IN  IF clean = <<>> THEN acc
        ELSE IF DefinesLabel(tokens)
        THEN [instructions |-> Append(acc.instructions, <<num, Tail(tokens)>>),
              labels       |-> IF Upper(LabelName(tokens)) \in DOMAIN acc.labels
                               THEN acc.labels
                               ELSE Put(acc.labels, Upper(LabelName(tokens)), num)]
        ELSE [instructions |-> Append(acc.instructions, <<num, tokens>>),
              labels       |-> acc.labels]

\* One iteration of the loop over the sorted line numbers: acc holds the
\* instruction list and the label table built so far.
PrepareLine(acc, num, raw) ==
    LET clean  == CleanLine(raw)
        tokens == Split(clean)
    IN  IF clean = <<>> THEN acc
        ELSE IF DefinesLabel(tokens)
        THEN [instructions |-> Append(acc.instructions, <<num, Tail(tokens)>>),
              labels       |-> Put(acc.labels, Upper(LabelName(tokens)), num)]
        ELSE [instructions |-> Append(acc.instructions, <<num, tokens>>),
              labels       |-> acc.labels]

RECURSIVE PrepareLoop(_, _, _)
PrepareLoop(src, nums, acc) ==
    IF nums = <<>> THEN acc
    ELSE PrepareLoop(src, Tail(nums), PrepareLine(acc, nums[1], src[nums[1]]))

\* line_to_index: origin line -> 0-based position (a later position
\* overwrites an earlier one).
BuildLineIndex(instrs) ==
    [ln \in {instrs[i][1] : i \in 1..Len(instrs)} |->
        (CHOOSE i \in 1..Len(instrs) :
            /\ instrs[i][1] = ln
            /\ \A j \in 1..Len(instrs) : instrs[j][1] = ln => j <= i) - 1]

Prepare(src) ==
    LET acc == PrepareLoop(src, Sorted(DOMAIN src),
                           [instructions |-> <<>>, labels |-> <<>>])
    IN  [instructions  |-> acc.instructions,
         labels        |-> acc.labels,
         line_to_index |-> BuildLineIndex(acc.instructions)]

\* ------------------------------------------------------------------------
\* The opcode mnemonics compared against tokens[0].upper()
\* ------------------------------------------------------------------------
OP_INPP == <<"I","N","P","P">>
OP_PARA == <<"P","A","R","A">>
OP_NADA == <<"N","A","D","A">>
OP_IMPR == <<"I","M","P","R">>
OP_AMEM == <<"A","M","E","M">>
OP_DMEM == <<"D","M","E","M">>
OP_CRCT == <<"C","R","C","T">>
OP_CRVL == <<"C","R","V","L">>
OP_ARMZ == <<"A","R","M","Z">>
OP_SOMA == <<"S","O","M","A">>
OP_SUBT == <<"S","U","B","T">>
OP_MULT == <<"M","U","L","T">>
OP_DIVI == <<"D","I","V","I">>
OP_INVR == <<"I","N","V","R">>
OP_CONJ == <<"C","O","N","J">>
OP_DISJ == <<"D","I","S","J">>
OP_CMME == <<"C","M","M","E">>
OP_CMMA == <<"C","M","M","A">>
OP_CMIG == <<"C","M","I","G">>
OP_CMDG == <<"C","M","D","G">>
OP_CMEG == <<"C","M","E","G">>
OP_CMAG == <<"C","M","A","G">>
OP_DSVS == <<"D","S","V","S">>
OP_DSVF == <<"D","S","V","F">>

\* ------------------------------------------------------------------------
\* One instruction: MepaInterpreter.execute_step
\* ------------------------------------------------------------------------
\* list.pop() and the value it returns.
Pop(s) == SubSeq(s, 1, Len(s) - 1)
Top(s) == s[Len(s)]

\* What the body of the try block leaves behind: the stack and the memory
\* as mutated so far, halted, the values printed, the exception raised
\* ("none" when the block completes) and the index a jump stored in ip
\* (-1 when the block did not return early).
Done(s, m, h, pr) ==
    [stack |-> s, memory |-> m, halted |-> h, printed |-> pr,
     raised |-> "none", jump |-> -1]
Raise(s, m, tag) ==
    [stack |-> s, memory |-> m, halted |-> FALSE, printed |-> <<>>,
     raised |-> tag, jump |-> -1]
Jump(s, m, idx) ==
    [stack |-> s, memory |-> m, halted |-> FALSE, printed |-> <<>>,
     raised |-> "none", jump |-> idx]

\* len(args) != 1 raises ValueError; so does int(args[0]) on a non-integer.
OneIntArg(args) == Len(args) = 1 /\ IsInt(args[1])

DoPARA(s, m) == Done(s, m, TRUE, <<>>)

\* Mutant of DoIMPR: the value is printed but left on the stack.
DoIMPR_Peek(s, m) ==
    IF s = <<>> THEN Raise(s, m, "StackUnderflow")
    ELSE Done(s, m, FALSE, <<Top(s)>>)

DoIMPR(s, m) ==
    IF s = <<>> THEN Raise(s, m, "StackUnderflow")
    ELSE Done(Pop(s), m, FALSE, <<Top(s)>>)

\* Mutant of AmemEffect: every address 0..n-1 is set to 0, present or not.
AmemEffect_Overwrite(m, n) ==
    [i \in DOMAIN m \cup 0..(n - 1) |-> IF i \in 0..(n - 1) THEN 0 ELSE m[i]]

\* for i in range(n): if i not in memory: memory[i] = 0
AmemEffect(m, n) ==
    [i \in DOMAIN m \cup 0..(n - 1) |-> IF i \in DOMAIN m THEN m[i] ELSE 0]

DoAMEM(s, m, args) ==
    IF ~OneIntArg(args) THEN Raise(s, m, "MalformedOperand")
    ELSE Done(s, AmemEffect(m, IntOf(args[1])), FALSE, <<>>)

\* Mutant of DmemEffect: range(1, n + 1), address 0 survives.
DmemEffect_OffByOne(m, n) == [i \in DOMAIN m \ 1..n |-> m[i]]

\* Mutant of DmemEffect: range(n + 1), address n is removed too.
DmemEffect_Inclusive(m, n) == [i \in DOMAIN m \ 0..n |-> m[i]]

\* for i in range(n): if i in memory: del memory[i]
DmemEffect(m, n) == [i \in DOMAIN m \ 0..(n - 1) |-> m[i]]

DoDMEM(s, m, args) ==
    IF ~OneIntArg(args) THEN Raise(s, m, "MalformedOperand")
    ELSE Done(s, DmemEffect(m, IntOf(args[1])), FALSE, <<>>)

\* CRCT that also prints the constant it pushes.
DoCRCT_Echo(s, m, args) ==
    IF ~OneIntArg(args) THEN Raise(s, m, "MalformedOperand")
    ELSE Done(Append(s, IntOf(args[1])), m, FALSE, <<IntOf(args[1])>>)

DoCRCT(s, m, args) ==
    IF ~OneIntArg(args) THEN Raise(s, m, "MalformedOperand")
    ELSE Done(Append(s, IntOf(args[1])), m, FALSE, <<>>)

DoCRVL(s, m, args) ==
    IF ~OneIntArg(args) THEN Raise(s, m, "MalformedOperand")
    ELSE IF IntOf(args[1]) \notin DOMAIN m THEN Raise(s, m, "UnallocatedAddress")
    ELSE Done(Append(s, m[IntOf(args[1])]), m, FALSE, <<>>)

\* Mutant of DoARMZ: an empty stack stores the default 0 before failing.
DoARMZ_StoreBeforeCheck(s, m, args) ==
    IF ~OneIntArg(args) THEN Raise(s, m, "MalformedOperand")
    ELSE IF s = <<>> THEN Raise(s, Put(m, IntOf(args[1]), 0), "StackUnderflow")
    ELSE Done(Pop(s), Put(m, IntOf(args[1]), Top(s)), FALSE, <<>>)

DoARMZ(s, m, args) ==
    IF ~OneIntArg(args) THEN Raise(s, m, "MalformedOperand")
    ELSE IF s = <<>> THEN Raise(s, m, "StackUnderflow")
    ELSE Done(Pop(s), Put(m, IntOf(args[1]), Top(s)), FALSE, <<>>)

\* Python's a // b: the quotient rounded toward negative infinity.
Abs(x) == IF x < 0 THEN 0 - x ELSE x

\* Division truncating toward zero, as C's / does.
FloorDiv_Truncate(a, b) ==
    IF (a >= 0) = (b > 0) THEN Abs(a) \div Abs(b)
    ELSE 0 - (Abs(a) \div Abs(b))

\* Python's a // b on integers.
FloorDiv(a, b) ==
    IF (a >= 0) = (b > 0) THEN Abs(a) \div Abs(b)
    ELSE 0 - ((Abs(a) + Abs(b) - 1) \div Abs(b))

\* Arithmetic whose DIVI tests the divisor before it pops the operands.
DoArith_ChecksDivisorFirst(op, s, m) ==
    IF Len(s) < 2 THEN Raise(s, m, "StackUnderflow")
    ELSE LET b    == Top(s)
             a    == Top(Pop(s))
             rest == Pop(Pop(s))
         IN  IF op = OP_SOMA THEN Done(Append(rest, a + b), m, FALSE, <<>>)
             ELSE IF op = OP_SUBT THEN Done(Append(rest, a - b), m, FALSE, <<>>)
             ELSE IF op = OP_MULT THEN Done(Append(rest, a * b), m, FALSE, <<>>)
             ELSE IF b = 0 THEN Raise(s, m, "ArithmeticError")
             ELSE Done(Append(rest, FloorDiv(a, b)), m, FALSE, <<>>)

\* SOMA, SUBT, MULT, DIVI: both operands are popped before DIVI tests b.
DoArith(op, s, m) ==
    IF Len(s) < 2 THEN Raise(s, m, "StackUnderflow")
    ELSE LET b    == Top(s)
             a    == Top(Pop(s))
             rest == Pop(Pop(s))
         IN  IF op = OP_SOMA THEN Done(Append(rest, a + b), m, FALSE, <<>>)
             ELSE IF op = OP_SUBT THEN Done(Append(rest, a - b), m, FALSE, <<>>)
             ELSE IF op = OP_MULT THEN Done(Append(rest, a * b), m, FALSE, <<>>)
             ELSE IF b = 0 THEN Raise(rest, m, "ArithmeticError")
             ELSE Done(Append(rest, FloorDiv(a, b)), m, FALSE, <<>>)

DoINVR(s, m) ==
    IF s = <<>> THEN Raise(s, m, "StackUnderflow")
    ELSE Done(Append(Pop(s), 0 - Top(s)), m, FALSE, <<>>)

\* CONJ, DISJ: Python truthiness of the two integers.
DoLogic(op, s, m) ==
    IF Len(s) < 2 THEN Raise(s, m, "StackUnderflow")
    ELSE LET b    == Top(s)
             a    == Top(Pop(s))
             rest == Pop(Pop(s))
             res  == IF op = OP_CONJ
                     THEN (IF a # 0 /\ b # 0 THEN 1 ELSE 0)
                     ELSE (IF a # 0 \/ b # 0 THEN 1 ELSE 0)
         IN  Done(Append(rest, res), m, FALSE, <<>>)

DoCompare(op, s, m) ==
    IF Len(s) < 2 THEN Raise(s, m, "StackUnderflow")
    ELSE LET b    == Top(s)
             a    == Top(Pop(s))
             rest == Pop(Pop(s))
             res  == IF op = OP_CMME THEN (IF a < b THEN 1 ELSE 0)
                     ELSE IF op = OP_CMMA THEN (IF a > b THEN 1 ELSE 0)
                     ELSE IF op = OP_CMIG THEN (IF a = b THEN 1 ELSE 0)
                     ELSE IF op = OP_CMDG THEN (IF a # b THEN 1 ELSE 0)
                     ELSE IF op = OP_CMEG THEN (IF a <= b THEN 1 ELSE 0)
                     ELSE (IF a >= b THEN 1 ELSE 0)
         IN  Done(Append(rest, res), m, FALSE, <<>>)

\* Mutant of LookupTargetIndex: a number that is no assembled line falls
\* back to the next assembled line after it.
LookupTargetIndex_Nearest(target, l2i, lbls) ==
    LET t     == Strip(target)
        after == {n \in DOMAIN l2i : IsInt(t) /\ n >= IntOf(t)}
    IN  IF IsInt(t)
        THEN (IF after # {}
              THEN l2i[CHOOSE n \in after : \A k \in after : n <= k]
              ELSE -1)
        ELSE IF Upper(t) \in DOMAIN lbls
             THEN (IF lbls[Upper(t)] \in DOMAIN l2i THEN l2i[lbls[Upper(t)]] ELSE -1)
             ELSE -1

\* Mutant of LookupTargetIndex: the label is looked up as written.
LookupTargetIndex_CaseSensitive(target, l2i, lbls) ==
    LET t == Strip(target) IN
    IF IsInt(t)
    THEN (IF IntOf(t) \in DOMAIN l2i THEN l2i[IntOf(t)] ELSE -1)
    ELSE IF t \in DOMAIN lbls
         THEN (IF lbls[t] \in DOMAIN l2i THEN l2i[lbls[t]] ELSE -1)
         ELSE -1

\* Mutant of LookupTargetIndex: the position before the target's.
LookupTargetIndex_OneBefore(target, l2i, lbls) ==
    LET t == Strip(target) IN
    IF IsInt(t)
    THEN (IF IntOf(t) \in DOMAIN l2i THEN l2i[IntOf(t)] - 1 ELSE -1)
    ELSE IF Upper(t) \in DOMAIN lbls
         THEN (IF lbls[Upper(t)] \in DOMAIN l2i THEN l2i[lbls[Upper(t)]] - 1 ELSE -1)
         ELSE -1

\* _lookup_target_index: the index of the target, or -1 for its KeyError.
LookupTargetIndex(target, l2i, lbls) ==
    LET t == Strip(target) IN
    IF IsInt(t)
    THEN (IF IntOf(t) \in DOMAIN l2i THEN l2i[IntOf(t)] ELSE -1)
    ELSE IF Upper(t) \in DOMAIN lbls
         THEN (IF lbls[Upper(t)] \in DOMAIN l2i THEN l2i[lbls[Upper(t)]] ELSE -1)
         ELSE -1

DoDSVS(s, m, args, l2i, lbls) ==
    IF Len(args) # 1 THEN Raise(s, m, "MalformedOperand")
    ELSE LET idx == LookupTargetIndex(args[1], l2i, lbls) IN
         IF idx < 0 THEN Raise(s, m, "UnresolvedTarget") ELSE Jump(s, m, idx)

\* Mutant of DoDSVF: the target is resolved before the condition is tested.
DoDSVF_ResolveFirst(s, m, args, l2i, lbls) ==
    IF Len(args) # 1 THEN Raise(s, m, "MalformedOperand")
    ELSE IF s = <<>> THEN Raise(s, m, "StackUnderflow")
    ELSE LET idx == LookupTargetIndex(args[1], l2i, lbls) IN
         IF idx < 0 THEN Raise(Pop(s), m, "UnresolvedTarget")
         ELSE IF Top(s) = 0 THEN Jump(Pop(s), m, idx)
         ELSE Done(Pop(s), m, FALSE, <<>>)

\* The condition is popped before the target is looked up.
DoDSVF(s, m, args, l2i, lbls) ==
    IF Len(args) # 1 THEN Raise(s, m, "MalformedOperand")
    ELSE IF s = <<>> THEN Raise(s, m, "StackUnderflow")
    ELSE IF Top(s) = 0
         THEN LET idx == LookupTargetIndex(args[1], l2i, lbls) IN
              IF idx < 0 THEN Raise(Pop(s), m, "UnresolvedTarget")
              ELSE Jump(Pop(s), m, idx)
         ELSE Done(Pop(s), m, FALSE, <<>>)

ArithOps   == {OP_SOMA, OP_SUBT, OP_MULT, OP_DIVI}
LogicOps   == {OP_CONJ, OP_DISJ}
CompareOps == {OP_CMME, OP_CMMA, OP_CMIG, OP_CMDG, OP_CMEG, OP_CMAG}

\* The if/elif chain over op.
Dispatch(op, args, s, m, l2i, lbls) ==
    IF op = OP_INPP THEN Done(s, m, FALSE, <<>>)
    ELSE IF op = OP_PARA THEN DoPARA(s, m)
    ELSE IF op = OP_NADA THEN Done(s, m, FALSE, <<>>)
    ELSE IF op = OP_IMPR THEN DoIMPR(s, m)
    ELSE IF op = OP_AMEM THEN DoAMEM(s, m, args)
    ELSE IF op = OP_DMEM THEN DoDMEM(s, m, args)
    ELSE IF op = OP_CRCT THEN DoCRCT(s, m, args)
    ELSE IF op = OP_CRVL THEN DoCRVL(s, m, args)
    ELSE IF op = OP_ARMZ THEN DoARMZ(s, m, args)
    ELSE IF op \in ArithOps THEN DoArith(op, s, m)
    ELSE IF op = OP_INVR THEN DoINVR(s, m)
    ELSE IF op \in LogicOps THEN DoLogic(op, s, m)
    ELSE IF op \in CompareOps THEN DoCompare(op, s, m)
    ELSE IF op = OP_DSVS THEN DoDSVS(s, m, args, l2i, lbls)
    ELSE IF op = OP_DSVF THEN DoDSVF(s, m, args, l2i, lbls)
    ELSE Raise(s, m, "UnknownOpcode")

\* The state execute_step leaves and how it left: "NoOp" (already halted),
\* "End" (ip outside the instructions), "Fallthrough" (ip += 1), "Jumped"
\* (early return of a jump) or the exception raised.
Step(s, m, i, h, pr, tag) ==
    [stack |-> s, memory |-> m, ip |-> i, halted |-> h, printed |-> pr,
     outcome |-> tag]

\* execute_step dispatching on the token as written.
ExecuteStep_NoCaseFold(s, m, i, h, instrs, l2i, lbls) ==
    IF h THEN Step(s, m, i, h, <<>>, "NoOp")
    ELSE IF i < 0 \/ i >= Len(instrs) THEN Step(s, m, i, TRUE, <<>>, "End")
    ELSE LET tokens == instrs[i + 1][2] IN
         IF tokens = <<>> THEN Step(s, m, i + 1, h, <<>>, "Fallthrough")
         ELSE LET r == Dispatch(tokens[1], Tail(tokens), s, m, l2i, lbls) IN
              IF r.raised # "none"
              THEN Step(r.stack, r.memory, i, h, <<>>, r.raised)
              ELSE IF r.jump >= 0
              THEN Step(r.stack, r.memory, r.jump, h, <<>>, "Jumped")
              ELSE Step(r.stack, r.memory, i + 1, r.halted, r.printed, "Fallthrough")

\* execute_step without its test of halted.
ExecuteStep_RunsWhenHalted(s, m, i, h, instrs, l2i, lbls) ==
    IF i < 0 \/ i >= Len(instrs) THEN Step(s, m, i, TRUE, <<>>, "End")
    ELSE LET tokens == instrs[i + 1][2] IN
         IF tokens = <<>> THEN Step(s, m, i + 1, h, <<>>, "Fallthrough")
         ELSE LET r == Dispatch(Upper(tokens[1]), Tail(tokens), s, m, l2i, lbls) IN
              IF r.raised # "none"
              THEN Step(r.stack, r.memory, i, h, <<>>, r.raised)
              ELSE IF r.jump >= 0
              THEN Step(r.stack, r.memory, r.jump, h, <<>>, "Jumped")
              ELSE Step(r.stack, r.memory, i + 1, r.halted, r.printed, "Fallthrough")

ExecuteStep(s, m, i, h, instrs, l2i, lbls) ==
    IF h THEN Step(s, m, i, h, <<>>, "NoOp")
    ELSE IF i < 0 \/ i >= Len(instrs) THEN Step(s, m, i, TRUE, <<>>, "End")
    ELSE LET tokens == instrs[i + 1][2] IN
         IF tokens = <<>> THEN Step(s, m, i + 1, h, <<>>, "Fallthrough")
         ELSE LET r == Dispatch(Upper(tokens[1]), Tail(tokens), s, m, l2i, lbls) IN
              IF r.raised # "none"
              THEN Step(r.stack, r.memory, i, h, <<>>, r.raised)
              ELSE IF r.jump >= 0
              THEN Step(r.stack, r.memory, r.jump, h, <<>>, "Jumped")
              ELSE Step(r.stack, r.memory, i + 1, r.halted, r.printed, "Fallthrough")

ErrorTags == {"StackUnderflow", "UnallocatedAddress", "ArithmeticError",
              "UnknownOpcode", "MalformedOperand", "UnresolvedTarget"}

\* What the RuntimeError of a failed step names: the origin line of the
\* instruction ("Erro ao executar linha {ln}: ...") and, for an unknown
\* opcode, the uppercased first token ("Instrução desconhecida '{op}' na
\* linha {ln}").
NoError == [line |-> -1, token |-> <<>>]
ErrorOf(i, instrs, tag) ==
    IF tag \notin ErrorTags THEN NoError
    ELSE [line  |-> instrs[i + 1][1],
          token |-> IF tag = "UnknownOpcode"
                    THEN Upper(instrs[i + 1][2][1]) ELSE <<>>]

\* ------------------------------------------------------------------------
\* The programs the buffer may hold
\* ------------------------------------------------------------------------
\* The decimal text of an integer, as a user types it.
RECURSIVE NatText(_)
NatText(n) ==
    IF n < 10 THEN <<Digits[n + 1]>>
    ELSE NatText(n \div 10) \o <<Digits[(n % 10) + 1]>>
IntText(k) == IF k < 0 THEN <<"-">> \o NatText(0 - k) ELSE NatText(k)

LowerChar(c) ==
    IF \E i \in 1..Len(UpperCase) : UpperCase[i] = c
    THEN LowerCase[CHOOSE i \in 1..Len(UpperCase) : UpperCase[i] = c]
    ELSE c
Lower(s) == [i \in 1..Len(s) |-> LowerChar(s[i])]

\* A raw line: the words separated by one blank.
RECURSIVE Line(_)
Line(ws) ==
    IF ws = <<>> THEN <<>>
    ELSE IF Len(ws) = 1 THEN ws[1]
    ELSE ws[1] \o <<" ">> \o Line(Tail(ws))

\* opcode with one integer operand
I1(op, k) == Line(<<op, IntText(k)>>)

W_L1     == <<"L","1">>
W_l1     == <<"l","1">>
W_L1def  == <<"L","1",":">>
W_l1def  == <<"l","1",":">>
W_Fim    == <<"F","i","m">>
W_FOOO   == <<"F","O","O","O">>
W_x      == <<"x">>
W_colon  == <<":">>
CommentOnly == <<"#"," ","n","o","t","h","i","n","g"," ","h","e","r","e">>
SpacedPush  == <<" "," ","c","r","c","t"," "," "," ","4"," "," ","#"," ","p","u","s","h">>
TightComment == <<"N","A","D","A","#","x">>

ZeroOps == {OP_INPP, OP_PARA, OP_NADA, OP_IMPR, OP_INVR}
              \cup ArithOps \cup LogicOps \cup CompareOps
OneOps  == {OP_AMEM, OP_DMEM, OP_CRCT, OP_CRVL, OP_ARMZ, OP_DSVS, OP_DSVF}

\* The instruction lines put after a prefix: every opcode well formed, with
\* a wrong operand count, with a non-integer operand, in lower case, and
\* unknown opcodes.
JumpTargets == {IntText(10), IntText(40), IntText(50), IntText(35),
                IntText(99), W_L1, W_l1, W_Fim}
Corpus ==
    {Line(<<op>>) : op \in ZeroOps \cup OneOps}
    \cup {Line(<<op, IntText(1)>>) : op \in {OP_PARA, OP_IMPR, OP_SOMA, OP_INVR}}
    \cup {I1(OP_AMEM, k) : k \in {-1, 0, 2}}
    \cup {I1(OP_DMEM, k) : k \in {-1, 1, 2, 4}}
    \cup {I1(OP_CRCT, k) : k \in {0, 3}}
    \cup {I1(OP_CRVL, k) : k \in {-1, 0, 1, 3}}
    \cup {I1(OP_ARMZ, k) : k \in {-1, 0, 3}}
    \cup {Line(<<op, t>>) : op \in {OP_DSVS, OP_DSVF}, t \in JumpTargets}
    \cup {Line(<<op, W_x>>) : op \in {OP_AMEM, OP_DMEM, OP_CRCT, OP_CRVL, OP_ARMZ}}
    \cup {Line(<<op, IntText(1), IntText(2)>>) : op \in OneOps}
    \cup {Line(<<Lower(op)>>) : op \in {OP_IMPR, OP_SOMA, OP_CMIG}}
    \cup {Line(<<Lower(op), W_l1>>) : op \in {OP_DSVS, OP_DSVF}}
    \cup {Line(<<W_FOOO>>), Line(<<Lower(W_FOOO), IntText(1)>>), Line(<<W_colon>>),
          SpacedPush, TightComment, CommentOnly}

\* Instruction sequences that bring the stack and the memory into the
\* states the line after them is executed in.
Prefixes ==
    { <<>>,
      <<I1(OP_CRCT, 0)>>,
      <<I1(OP_CRCT, 6)>>,
      <<I1(OP_CRCT, 5), I1(OP_CRCT, 0)>>,
      <<Line(<<OP_INPP>>), I1(OP_AMEM, 2)>>,
      <<I1(OP_CRCT, 5), I1(OP_ARMZ, 3)>>,
      <<I1(OP_AMEM, 2), I1(OP_CRCT, 7), I1(OP_ARMZ, 1)>>,
      <<I1(OP_AMEM, 3), I1(OP_DMEM, 2), I1(OP_CRCT, 1)>>,
      <<I1(OP_CRCT, 8), I1(OP_ARMZ, 0), I1(OP_CRCT, 0)>>,
      <<I1(OP_CRCT, 9), I1(OP_ARMZ, -1)>> }

\* What follows the line: nothing, a labelled line, a comment-only line
\* before a label in the other casing, a label alone on its line.
Suffixes ==
    { <<>>,
      <<Line(<<W_L1def, OP_CRCT, IntText(2)>>), Line(<<OP_IMPR>>)>>,
      <<CommentOnly, Line(<<W_l1def, OP_IMPR>>)>>,
      <<I1(OP_CRVL, 0), Line(<<W_L1def>>), Line(<<OP_PARA>>)>> }

\* The division example: CRCT -7; CRCT 2; DIVI; IMPR
DiviProgram ==
    <<I1(OP_CRCT, -7), I1(OP_CRCT, 2), Line(<<OP_DIVI>>), Line(<<OP_IMPR>>)>>

\* Mnemonics in lower and mixed case, then an unknown one:
\* crct 1; Impr; fooo 1
CaseProgram ==
    <<Line(<<Lower(OP_CRCT), IntText(1)>>),
      Line(<<<<"I", "m", "p", "r">>>>),
      Line(<<Lower(W_FOOO), IntText(1)>>)>>

\* A label defined twice, in either casing: around the jump to it
\* (d1 NADA; CRCT c; jump t; CRCT 1; IMPR; d2 CRCT 2; IMPR) and before it
\* (d1 CRCT 1; d2 CRCT 2; IMPR; DSVS t).
RedefPrograms ==
    { <<Line(<<d1, OP_NADA>>), I1(OP_CRCT, c), Line(<<op, t>>),
        I1(OP_CRCT, 1), Line(<<OP_IMPR>>),
        Line(<<d2, OP_CRCT, IntText(2)>>), Line(<<OP_IMPR>>)>> :
        d1 \in {W_L1def, W_l1def}, d2 \in {W_L1def, W_l1def},
        c \in {0, 1}, op \in {OP_DSVS, OP_DSVF}, t \in {W_L1, W_l1} }
    \cup
    { <<Line(<<d1, OP_CRCT, IntText(1)>>), Line(<<d2, OP_CRCT, IntText(2)>>),
        Line(<<OP_IMPR>>), Line(<<OP_DSVS, t>>)>> :
        d1 \in {W_L1def, W_l1def}, d2 \in {W_L1def, W_l1def},
        t \in {W_L1, W_l1} }

\* CRCT k1; CRCT k2; <binary operation>; IMPR
BinaryPrograms ==
    { <<I1(OP_CRCT, k1), I1(OP_CRCT, k2), Line(<<op>>), Line(<<OP_IMPR>>)>> :
        k1 \in -MaxVal..MaxVal, k2 \in -MaxVal..MaxVal,
        op \in ArithOps \cup LogicOps \cup CompareOps }

\* The branch example: CRCT c; DSVF L1; CRCT 1; IMPR; l1: CRCT 2; IMPR
BranchPrograms ==
    { <<I1(OP_CRCT, c), Line(<<OP_DSVF, t>>), I1(OP_CRCT, 1), Line(<<OP_IMPR>>),
        Line(<<d, OP_CRCT, IntText(2)>>), Line(<<OP_IMPR>>)>> :
        c \in {0, 1}, t \in {W_L1, W_l1, W_Fim}, d \in {W_L1def, W_l1def} }

Programs ==
    {p \o <<c>> \o s : p \in Prefixes, c \in Corpus, s \in Suffixes}
    \cup BinaryPrograms \cup BranchPrograms \cup {DiviProgram, CaseProgram}
    \cup RedefPrograms

\* SourceBuffer.lines of a program typed at lines 10, 20, 30, ...
Buffer(prog) == [n \in {10 * i : i \in 1..Len(prog)} |-> prog[n \div 10]]

\* Programs with a jump after one instruction: forward, backward, to a
\* missing line or label; the loops among them come back to the same
\* stack.
LoopPrograms ==
    { <<c, Line(<<OP_DSVS, t>>)>> \o s :
        c \in {Line(<<OP_NADA>>), Line(<<W_L1def, OP_NADA>>)},
        t \in {IntText(10), IntText(30), W_L1, W_l1},
        s \in {<<>>, <<Line(<<OP_NADA>>)>>, <<Line(<<OP_PARA>>)>>} }
    \cup
    { <<c, Line(<<OP_DSVF, t>>)>> \o s :
        c \in {I1(OP_CRCT, 0), I1(OP_CRCT, 1), Line(<<W_L1def, OP_CRCT, IntText(0)>>)},
        t \in {IntText(10), IntText(30), W_L1, W_l1},
        s \in {<<>>, <<Line(<<OP_NADA>>)>>, <<Line(<<OP_PARA>>)>>} }

LivePrograms == LoopPrograms \cup BranchPrograms

\* ------------------------------------------------------------------------
\* The edits of the buffer
\* ------------------------------------------------------------------------
\* CRCT 1; L1: IMPR; DSVS L1 (prints 1, then IMPR fails on the empty stack)
EditProgram ==
    <<I1(OP_CRCT, 1), Line(<<W_L1def, OP_IMPR>>), Line(<<OP_DSVS, W_L1>>)>>

EditNums == {20, 30}
EditTexts == { Line(<<<<"l", "2", ":">>, OP_CRCT, IntText(2)>>),
               Line(<<OP_PARA>>) }

\* A file: a line out of order, a blank line, a line without a number, a
\* negative number, blanks around the number and the text.
Files ==
    { << Line(<<IntText(30), Lower(OP_IMPR)>>) \o <<" ">>,
         <<>>,
         Line(<<W_x, OP_NADA>>),
         Line(<<IntText(-5), OP_NADA>>),
         <<" ">> \o Line(<<IntText(20), <<>>, W_L1def, OP_NADA>>) >> }

\* ------------------------------------------------------------------------
\* State
\* ------------------------------------------------------------------------
VARIABLES
    lines,          \* SourceBuffer.lines: line number -> raw text
    stack,          \* MepaInterpreter.stack
    memory,         \* MepaInterpreter.memory
    instructions,   \* MepaInterpreter.instructions: <<line, tokens>>
    line_to_index,  \* MepaInterpreter.line_to_index
    labels,         \* MepaInterpreter.labels
    ip,             \* MepaInterpreter.ip
    running,        \* MepaInterpreter.running
    halted,         \* MepaInterpreter.halted
    output,         \* the values IMPR printed in the current session
    pc,             \* "new", "run" (inside the loop of run_all), "returned"
                    \* (run_all returned), "raised" (run_all left by an
                    \* exception) or "debug" (after start_debug)
    steps,          \* step requests made in the current session
    last,           \* the last execute_step call: its driver, the state it
                    \* started from, the instruction it fetched, its outcome
    alloc,          \* history of the address space in the session:
                    \* amem, the addresses an AMEM covered and no DMEM has
                    \* covered since; ever, the addresses an AMEM ever
                    \* covered; armz, the addresses an ARMZ stored to and
                    \* no DMEM has covered since
    snapshot,       \* the buffer contents prepare read at the start of
                    \* the current session
    seen            \* what the interpreter held when the buffer contents
                    \* last changed: whether its last step had failed,
                    \* halted, the label table, the steps of the session

vars == <<lines, stack, memory, instructions, line_to_index, labels, ip,
          running, halted, output, pc, steps, last, alloc, snapshot, seen>>

NoAlloc == [amem |-> {}, ever |-> {}, armz |-> {}]

NoLast ==
    [driver |-> "none", outcome |-> "none", n |-> 0, line |-> -1,
     op |-> <<>>, args |-> <<>>, stack |-> <<>>, memory |-> <<>>, ip |-> 0,
     halted |-> FALSE, output |-> <<>>, alloc |-> NoAlloc,
     error |-> NoError,
     prev |-> [op |-> <<>>, args |-> <<>>, outcome |-> "none"]]

NoSeen == [failed |-> FALSE, halted |-> FALSE, labels |-> <<>>, n |-> 0]

\* MepaInterpreter.__init__: every field of a new interpreter.
InitInterpreter ==
    /\ stack = <<>>
    /\ memory = <<>>
    /\ instructions = <<>>
    /\ line_to_index = <<>>
    /\ labels = <<>>
    /\ ip = 0
    /\ running = FALSE
    /\ halted = FALSE
    /\ output = <<>>
    /\ pc = "new"
    /\ steps = 0
    /\ last = NoLast
    /\ alloc = NoAlloc
    /\ snapshot = <<>>
    /\ seen = NoSeen

\* A new interpreter over a buffer holding one of the programs.
Init ==
    /\ lines \in {Buffer(p) : p \in Programs}
    /\ InitInterpreter

\* A session start whose prepare does not clear the label table.
BeginSession_KeepsLabels ==
    LET a == Prepare(lines) IN
    /\ instructions' = a.instructions
    /\ labels' = [k \in DOMAIN labels \cup DOMAIN a.labels |->
                    IF k \in DOMAIN a.labels THEN a.labels[k] ELSE labels[k]]
    /\ line_to_index' = a.line_to_index
    /\ stack' = <<>>
    /\ memory' = <<>>
    /\ ip' = 0
    /\ halted' = FALSE
    /\ running' = TRUE
    /\ output' = <<>>
    /\ steps' = 0
    /\ last' = NoLast
    /\ alloc' = NoAlloc
    /\ snapshot' = lines
    /\ UNCHANGED <<lines, seen>>

\* prepare(); reset_state(); running = True
BeginSession ==
    LET a == Prepare(lines) IN
    /\ instructions' = a.instructions
    /\ labels' = a.labels
    /\ line_to_index' = a.line_to_index
    /\ stack' = <<>>
    /\ memory' = <<>>
    /\ ip' = 0
    /\ halted' = FALSE
    /\ running' = TRUE
    /\ output' = <<>>
    /\ steps' = 0
    /\ last' = NoLast
    /\ alloc' = NoAlloc
    /\ snapshot' = lines
    /\ UNCHANGED <<lines, seen>>

\* The instruction execute_step fetches, when there is one.
Fetches == ~halted /\ 0 <= ip /\ ip < Len(instructions)
          /\ instructions[ip + 1][2] # <<>>
FetchedLine == IF ~halted /\ 0 <= ip /\ ip < Len(instructions)
               THEN instructions[ip + 1][1] ELSE -1
FetchedOp   == IF Fetches THEN Upper(instructions[ip + 1][2][1]) ELSE <<>>
FetchedArgs == IF Fetches THEN Tail(instructions[ip + 1][2]) ELSE <<>>

\* The history of the address space after a call that leaves r.
AllocAfter(r) ==
    IF r.outcome = "Fallthrough" /\ FetchedOp = OP_AMEM
    THEN [alloc EXCEPT !.amem = @ \cup 0..(IntOf(FetchedArgs[1]) - 1),
                       !.ever = @ \cup 0..(IntOf(FetchedArgs[1]) - 1)]
    ELSE IF r.outcome = "Fallthrough" /\ FetchedOp = OP_DMEM
    THEN [alloc EXCEPT !.amem = @ \ 0..(IntOf(FetchedArgs[1]) - 1),
                       !.armz = @ \ 0..(IntOf(FetchedArgs[1]) - 1)]
    ELSE IF r.outcome = "Fallthrough" /\ FetchedOp = OP_ARMZ
    THEN [alloc EXCEPT !.armz = @ \cup {IntOf(FetchedArgs[1])}]
    ELSE alloc

\* The count of step requests, which stops counting at MaxSteps.
Tick == IF steps < MaxSteps THEN steps + 1 ELSE steps

\* One call of execute_step by `driver`; r is what it leaves.
Call(driver, r) ==
    /\ stack' = r.stack
    /\ memory' = r.memory
    /\ ip' = r.ip
    /\ output' = output \o r.printed
    /\ steps' = Tick
    /\ alloc' = AllocAfter(r)
    /\ last' = [driver |-> driver, outcome |-> r.outcome, n |-> Tick,
                line |-> FetchedLine, op |-> FetchedOp, args |-> FetchedArgs,
                stack |-> stack, memory |-> memory, ip |-> ip,
                halted |-> halted, output |-> output, alloc |-> alloc,
                error |-> ErrorOf(ip, instructions, r.outcome),
                prev |-> [op |-> last.op, args |-> last.args,
                          outcome |-> last.outcome]]
    /\ UNCHANGED <<lines, instructions, line_to_index, labels, snapshot, seen>>

\* ------------------------------------------------------------------------
\* run_all
\* ------------------------------------------------------------------------
RunAll ==
    /\ pc # "run"
    /\ BeginSession
    /\ pc' = "run"

\* One iteration of the while loop.  An exception of execute_step leaves
\* run_all at once: nothing after the call is executed.
RunIteration ==
    /\ pc = "run"
    /\ ip < Len(instructions) /\ ~halted
    /\ LET r == ExecuteStep(stack, memory, ip, halted, instructions,
                            line_to_index, labels)
       IN  /\ Call("run", r)
           /\ halted' = r.halted
           /\ pc' = IF r.outcome \in ErrorTags THEN "raised" ELSE "run"
           /\ UNCHANGED running

\* The iterations explored in one session.
RunLoop == steps < MaxSteps /\ RunIteration

\* The loop condition is false: running = False and run_all returns.
RunReturn ==
    /\ pc = "run"
    /\ ~(ip < Len(instructions) /\ ~halted)
    /\ running' = FALSE
    /\ pc' = "returned"
    /\ UNCHANGED <<lines, stack, memory, instructions, line_to_index, labels,
                   ip, halted, output, steps, last, alloc, snapshot, seen>>

\* ------------------------------------------------------------------------
\* Debug controller
\* ------------------------------------------------------------------------
StartDebug ==
    /\ pc # "run"
    /\ BeginSession
    /\ pc' = "debug"

\* debug_next whose except clause does not set halted.
DebugNext_NoHalt ==
    /\ pc = "debug"
    /\ steps < MaxSteps
    /\ IF halted
       THEN /\ steps' = steps + 1
            /\ UNCHANGED <<lines, stack, memory, instructions, line_to_index,
                           labels, ip, running, halted, output, pc, last, alloc,
                           snapshot, seen>>
       ELSE LET r == ExecuteStep(stack, memory, ip, halted, instructions,
                                 line_to_index, labels)
            IN  /\ Call("debug", r)
                /\ halted' = r.halted
                /\ UNCHANGED <<running, pc>>

\* debug_next: nothing but a message when halted; otherwise one
\* execute_step, whose exception is caught and sets halted.
DebugNext ==
    /\ pc = "debug"
    /\ steps < MaxSteps
    /\ IF halted
       THEN /\ steps' = steps + 1
            /\ UNCHANGED <<lines, stack, memory, instructions, line_to_index,
                           labels, ip, running, halted, output, pc, last, alloc,
                           snapshot, seen>>
       ELSE LET r == ExecuteStep(stack, memory, ip, halted, instructions,
                                 line_to_index, labels)
            IN  /\ Call("debug", r)
                /\ halted' = (r.halted \/ r.outcome \in ErrorTags)
                /\ UNCHANGED <<running, pc>>

\* ------------------------------------------------------------------------
\* SourceBuffer: the operations that change the lines
\* ------------------------------------------------------------------------
\* parse_line_header: "120 CRVL 2" gives the line number 120 and the text
\* "CRVL 2"; ok is false where the function raises ValueError.
ParseLineHeader(raw) ==
    LET s == Strip(raw)
        w == FirstWord(s)
    IN  IF s = <<>> THEN [ok |-> FALSE, num |-> -1, rest |-> <<>>]
        ELSE IF ~IsInt(w) THEN [ok |-> FALSE, num |-> -1, rest |-> <<>>]
        ELSE IF IntOf(w) < 0 THEN [ok |-> FALSE, num |-> -1, rest |-> <<>>]
        ELSE [ok |-> TRUE, num |-> IntOf(w),
              rest |-> Strip(SubSeq(s, Len(w) + 1, Len(s)))]

\* The loop of load_file over the lines of the file: blank and malformed
\* lines are skipped, a later line overwrites an earlier one of the same
\* number.
RECURSIVE LoadLoop(_, _)
LoadLoop(content, acc) ==
    IF content = <<>> THEN acc
    ELSE LET h == ParseLineHeader(content[1]) IN
         LoadLoop(Tail(content),
                  IF h.ok THEN Put(acc, h.num, h.rest) ELSE acc)

\* load_file: lines.clear(), then the loop.
LoadFile(content) == LoadLoop(content, <<>>)

\* dict.pop over a set of keys
Without(d, ks) == [x \in DOMAIN d \ ks |-> d[x]]

\* A buffer whose operations also reassemble the interpreter.
Mutate_Reassembles(newlines) ==
    /\ pc # "run"
    /\ lines' = newlines
    /\ seen' = IF newlines = lines THEN seen
               ELSE [failed |-> last.outcome \in ErrorTags,
                     halted |-> halted, labels |-> labels, n |-> steps]
    /\ instructions' = Prepare(newlines).instructions
    /\ labels' = Prepare(newlines).labels
    /\ line_to_index' = Prepare(newlines).line_to_index
    /\ UNCHANGED <<stack, memory, ip, running, halted, output, pc, steps,
                   last, alloc, snapshot>>

\* The buffer becomes newlines.  The interpreter holds only a reference to
\* the buffer: none of its fields is touched.  No buffer operation can
\* happen inside the loop of run_all.
Mutate(newlines) ==
    /\ pc # "run"
    /\ lines' = newlines
    /\ seen' = IF newlines = lines THEN seen
               ELSE [failed |-> last.outcome \in ErrorTags,
                     halted |-> halted, labels |-> labels, n |-> steps]
    /\ UNCHANGED <<stack, memory, instructions, line_to_index, labels, ip,
                   running, halted, output, pc, steps, last, alloc, snapshot>>

\* insert(num, instr): a new line or the replacement of an existing one.
Insert == \E num \in EditNums, instr \in EditTexts :
              Mutate(Put(lines, num, instr))

\* delete(num): KeyError, and no change, when the line does not exist.
Delete == \E num \in EditNums :
              /\ num \in DOMAIN lines
              /\ Mutate(Without(lines, {num}))

\* delete_range(a, b): ValueError, and no change, when a > b.
DeleteRange == \E a \in EditNums, b \in EditNums :
                   /\ a <= b
                   /\ Mutate(Without(lines, a..b))

\* load_file(path) of a file with one of the contents.
Load == \E content \in Files : Mutate(LoadFile(content))

\* ------------------------------------------------------------------------
\* run_all as a function of the buffer
\* ------------------------------------------------------------------------
\* A loop condition that leaves the last instruction out.
LoopCondition_StopsEarly(i, h, instrs) == i < Len(instrs) - 1 /\ ~h

\* The condition of the while loop of run_all.
LoopCondition(i, h, instrs) == i < Len(instrs) /\ ~h

\* The while loop of run_all from a state, for at most fuel iterations:
\* the state it stops in, how it stopped ("returned", "raised", or "run"
\* when the iterations are used up) and what it printed.
RECURSIVE RunAllFrom(_, _, _, _, _, _, _, _, _)
RunAllFrom(s, m, i, h, out, instrs, l2i, lbls, fuel) ==
    IF ~LoopCondition(i, h, instrs)
    THEN [stack |-> s, memory |-> m, ip |-> i, halted |-> h,
          output |-> out, pc |-> "returned"]
    ELSE IF fuel = 0
    THEN [stack |-> s, memory |-> m, ip |-> i, halted |-> h,
          output |-> out, pc |-> "run"]
    ELSE LET r == ExecuteStep(s, m, i, h, instrs, l2i, lbls) IN
         IF r.outcome \in ErrorTags
         THEN [stack |-> r.stack, memory |-> r.memory, ip |-> r.ip,
               halted |-> r.halted, output |-> out \o r.printed,
               pc |-> "raised"]
         ELSE RunAllFrom(r.stack, r.memory, r.ip, r.halted,
                         out \o r.printed, instrs, l2i, lbls, fuel - 1)

\* run_all on the buffer src: prepare, reset_state, then the loop.
RunAllResult(src) ==
    LET a == Prepare(src) IN
    RunAllFrom(<<>>, <<>>, 0, FALSE, <<>>, a.instructions,
               a.line_to_index, a.labels, MaxSteps)

Next == RunAll \/ RunLoop \/ RunReturn \/ StartDebug \/ DebugNext

Spec == Init /\ [][Next]_vars

\* The interpreter and the editing of its buffer between the calls.
InitEdit ==
    /\ lines = Buffer(EditProgram)
    /\ InitInterpreter

NextEdit == \/ RunAll \/ RunLoop \/ RunReturn \/ StartDebug \/ DebugNext
            \/ Insert \/ Delete \/ DeleteRange \/ Load

SpecEdit == InitEdit /\ [][NextEdit]_vars

\* run_all alone, on programs whose loops revisit the same states, with
\* every iteration of the while loop allowed.  run_all is one synchronous
\* call: once entered, its loop goes on while an iteration is possible and
\* it returns when none is.
InitLive ==
    /\ lines \in {Buffer(p) : p \in LivePrograms}
    /\ InitInterpreter

NextLive == RunAll \/ RunIteration \/ RunReturn

SpecLive == /\ InitLive /\ [][NextLive]_vars
            /\ WF_vars(RunIteration) /\ WF_vars(RunReturn)

\* ------------------------------------------------------------------------
\* Types
\* ------------------------------------------------------------------------
TypeOK ==
    /\ pc \in {"new", "run", "returned", "raised", "debug"}
    /\ steps \in 0..MaxSteps
    /\ ip \in 0..Len(instructions)
    /\ halted \in BOOLEAN /\ running \in BOOLEAN
    /\ last.outcome \in ErrorTags \cup {"none", "NoOp", "End", "Fallthrough", "Jumped"}

\* ------------------------------------------------------------------------
\* Properties
\* ------------------------------------------------------------------------
\* The last call of execute_step fetched an instruction with opcode op.
Executed(op) == last.driver # "none" /\ last.op = op
Failed == last.outcome \in ErrorTags

\* C1: whenever a step fails, the engine is halted afterwards, under
\* run_all as under debug_next: the halted flag is true in the state the
\* failing step leaves.
C1_FailedStepHalts == Failed => halted

\* C1, debug_next alone: a failed debug step leaves halted true.
C1_FailedDebugStepHalts == (Failed /\ last.driver = "debug") => halted

\* C2: when run_all returns without an error the halted flag is true,
\* after PARA as after the natural end of the program.
C2_ReturnedRunIsHalted == pc = "returned" => halted

\* The minimum stack depth of the opcode of the last call (0 when none).
Need1Ops == {OP_IMPR, OP_ARMZ, OP_INVR, OP_DSVF}
Need2Ops == ArithOps \cup LogicOps \cup CompareOps
Underflows ==
    /\ last.driver # "none"
    /\ \/ last.op \in Need1Ops /\ Len(last.stack) < 1
       \/ last.op \in Need2Ops /\ Len(last.stack) < 2

\* C3 as stated: an instruction needing 1 or 2 operands, executed with
\* fewer on the stack, fails with StackUnderflow and leaves the stack and
\* the address space as they were.
C3_UnderflowIsStackUnderflow ==
    Underflows =>
        /\ last.outcome = "StackUnderflow"
        /\ stack = last.stack
        /\ memory = last.memory

\* ARMZ and DSVF test their operand before the stack.
OperandRejected ==
    \/ last.op = OP_ARMZ /\ ~(Len(last.args) = 1 /\ IsInt(last.args[1]))
    \/ last.op = OP_DSVF /\ Len(last.args) # 1

\* C3 amended: such an instruction fails and leaves the stack and the
\* address space as they were; the failure is StackUnderflow, except for an
\* ARMZ or DSVF whose operand is rejected first (wrong operand count, or a
\* non-integer operand of ARMZ), which fails with MalformedOperand.
C3_UnderflowFailsWithoutMutation ==
    Underflows =>
        /\ last.outcome = (IF OperandRejected THEN "MalformedOperand"
                           ELSE "StackUnderflow")
        /\ stack = last.stack
        /\ memory = last.memory
        /\ ip = last.ip
        /\ output = last.output

\* Witness of C3: a two-operand instruction met one operand and a non-empty
\* memory, and failed with StackUnderflow.
C3_Witness ==
    /\ Underflows
    /\ last.op \in Need2Ops
    /\ Len(last.stack) = 1
    /\ DOMAIN last.memory # {}
    /\ last.outcome = "StackUnderflow"

\* The address operand of the last call (an instruction with one integer
\* operand).
OneInt == Len(last.args) = 1 /\ IsInt(last.args[1])
Operand == IntOf(last.args[1])

\* C4 as stated: CRVL n succeeds only if an AMEM of the session allocated
\* address n and no DMEM removed it since; for an address no AMEM ever
\* allocated, CRVL n fails with UnallocatedAddress and pushes nothing.
C4_CrvlNeedsAmem ==
    (Executed(OP_CRVL) /\ OneInt) =>
        /\ last.outcome = "Fallthrough" => Operand \in last.alloc.amem
        /\ Operand \notin last.alloc.ever =>
              /\ last.outcome = "UnallocatedAddress"
              /\ stack = last.stack

\* C4 amended: CRVL n succeeds only if address n was made present earlier
\* in the session, by an AMEM covering it or by an ARMZ n, and not removed
\* since by a DMEM; for any other address CRVL n fails with
\* UnallocatedAddress and pushes nothing.
C4_CrvlNeedsAmemOrArmz ==
    (Executed(OP_CRVL) /\ OneInt) =>
        /\ last.outcome = "Fallthrough" =>
              Operand \in last.alloc.amem \cup last.alloc.armz
        /\ Operand \notin last.alloc.amem \cup last.alloc.armz =>
              /\ last.outcome = "UnallocatedAddress"
              /\ stack = last.stack
              /\ memory = last.memory

\* Witness of C4: CRVL n failed on an address that an AMEM had allocated and
\* a DMEM removed again.
C4_Witness ==
    /\ Executed(OP_CRVL) /\ OneInt
    /\ Operand \in last.alloc.ever
    /\ Operand \notin last.alloc.amem \cup last.alloc.armz
    /\ last.outcome = "UnallocatedAddress"

\* C5: after DMEM m every address i with 0 <= i < m is absent, whatever AMEM
\* or ARMZ ran before, and the addresses >= m are as they were; a CRVL i
\* with 0 <= i < m executed next fails with UnallocatedAddress.
C5_DmemRemovesPrefix ==
    /\ (Executed(OP_DMEM) /\ last.outcome = "Fallthrough") =>
          /\ \A i \in 0..(Operand - 1) : i \notin DOMAIN memory
          /\ \A a \in DOMAIN last.memory :
                a >= Operand => (a \in DOMAIN memory /\ memory[a] = last.memory[a])
          /\ DOMAIN memory \subseteq DOMAIN last.memory
    /\ (/\ Executed(OP_CRVL) /\ OneInt
        /\ last.prev.op = OP_DMEM /\ last.prev.outcome = "Fallthrough"
        /\ 0 <= Operand /\ Operand < IntOf(last.prev.args[1])) =>
          last.outcome = "UnallocatedAddress"

\* Witness of C5: a CRVL of an address that AMEM or ARMZ had made present
\* failed right after the DMEM that removed it, and an address >= m survived.
C5_Witness ==
    /\ Executed(OP_CRVL) /\ OneInt
    /\ last.prev.op = OP_DMEM /\ last.prev.outcome = "Fallthrough"
    /\ 0 <= Operand /\ Operand < IntOf(last.prev.args[1])
    /\ last.outcome = "UnallocatedAddress"
    /\ last.alloc.ever # {}
    /\ \E a \in DOMAIN memory : a >= IntOf(last.prev.args[1])

\* C6: AMEM m makes every address 0..m-1 present: an absent address reads 0
\* afterwards, a present one keeps its value, the addresses >= m and the
\* stack are unchanged, and a second AMEM m changes nothing.
C6_AmemFillsWithoutOverwrite ==
    (Executed(OP_AMEM) /\ last.outcome = "Fallthrough") =>
        /\ DOMAIN memory = DOMAIN last.memory \cup 0..(Operand - 1)
        /\ \A a \in DOMAIN last.memory : memory[a] = last.memory[a]
        /\ \A a \in DOMAIN memory \ DOMAIN last.memory : memory[a] = 0
        /\ stack = last.stack
        /\ Dispatch(last.op, last.args, stack, memory, line_to_index, labels).memory
              = memory

\* Witness of C6: AMEM m ran over an address holding a non-zero value and
\* over one that was absent.
C6_Witness ==
    /\ Executed(OP_AMEM) /\ last.outcome = "Fallthrough"
    /\ \E a \in 0..(Operand - 1) : a \in DOMAIN last.memory /\ last.memory[a] # 0
    /\ \E a \in 0..(Operand - 1) : a \notin DOMAIN last.memory

\* The origin lines of the assembled instructions.
AssembledLines == {instructions[i][1] : i \in 1..Len(instructions)}

\* The buffer lines whose first word is the label t followed by a colon, in
\* any casing.
DefLines(t) ==
    {n \in DOMAIN lines :
        LET ws == Split(CleanLine(lines[n])) IN
        /\ ws # <<>>
        /\ Len(ws[1]) > 1
        /\ ws[1][Len(ws[1])] = ":"
        /\ Upper(SubSeq(ws[1], 1, Len(ws[1]) - 1)) = Upper(t)}

\* The line a jump target names: the number itself, or the line of the
\* (last) definition of the label; -1 for an unknown label.
TargetLine(t) ==
    IF IsInt(t) THEN IntOf(t)
    ELSE IF DefLines(t) = {} THEN -1
    ELSE CHOOSE n \in DefLines(t) : \A k \in DefLines(t) : k <= n

\* The last call was a DSVS, or a DSVF that met the condition 0.
Taken ==
    /\ last.driver # "none"
    /\ Len(last.args) = 1
    /\ \/ last.op = OP_DSVS
       \/ last.op = OP_DSVF /\ last.stack # <<>> /\ Top(last.stack) = 0

AtLine(n) == 0 <= ip /\ ip < Len(instructions) /\ instructions[ip + 1][1] = n

\* C7: after a successful DSVS or taken DSVF the instruction pointer is the
\* index, inside the instruction sequence, of the instruction whose origin
\* line is the one the target names; a numeric target that is not the
\* origin line of an assembled instruction fails with UnresolvedTarget and
\* the pointer does not move.
C7_JumpLandsOnAssembledTarget ==
    Taken =>
        /\ last.outcome \in {"Jumped", "UnresolvedTarget"}
        /\ last.outcome = "Jumped" => AtLine(TargetLine(last.args[1]))
        /\ (IsInt(last.args[1]) /\ IntOf(last.args[1]) \notin AssembledLines) =>
              (last.outcome = "UnresolvedTarget" /\ ip = last.ip)

\* Witness of C7: a jump to a number strictly between two assembled lines
\* failed with UnresolvedTarget.
C7_Witness ==
    /\ Taken
    /\ IsInt(last.args[1])
    /\ \E a \in AssembledLines : a < IntOf(last.args[1])
    /\ \E b \in AssembledLines : b > IntOf(last.args[1])
    /\ last.outcome = "UnresolvedTarget"

\* C8: DSVF pops exactly one value cond; with cond = 0 the pointer becomes
\* the index of the resolved target (the step fails when there is none);
\* with cond # 0 the pointer advances by one and the target is not
\* resolved, so the step succeeds even when the target does not exist.
C8_DsvfBranches ==
    (Executed(OP_DSVF) /\ Len(last.args) = 1 /\ last.stack # <<>>) =>
        /\ stack = Pop(last.stack)
        /\ IF Top(last.stack) = 0
           THEN IF TargetLine(last.args[1]) \in AssembledLines
                THEN last.outcome = "Jumped" /\ AtLine(TargetLine(last.args[1]))
                ELSE last.outcome = "UnresolvedTarget" /\ ip = last.ip
           ELSE last.outcome = "Fallthrough" /\ ip = last.ip + 1

\* Witness of C8: a DSVF whose target does not exist met a non-zero
\* condition and fell through.
C8_Witness ==
    /\ Executed(OP_DSVF) /\ Len(last.args) = 1 /\ last.stack # <<>>
    /\ Top(last.stack) # 0
    /\ TargetLine(last.args[1]) \notin AssembledLines
    /\ last.outcome = "Fallthrough"
    /\ ip = last.ip + 1

\* C9: a DSVS or taken DSVF whose target is the name of a label defined on
\* an assembled line, in whatever casing, moves the instruction pointer to
\* the index of the line that defines the label.
C9_LabelsIgnoreCase ==
    (Taken /\ ~IsInt(last.args[1]) /\ DefLines(last.args[1]) # {}) =>
        /\ last.outcome = "Jumped"
        /\ AtLine(TargetLine(last.args[1]))

\* Witness of C9: a jump reached a label written in another casing than
\* its definition.
C9_Witness ==
    /\ Taken /\ ~IsInt(last.args[1])
    /\ \E n \in DefLines(last.args[1]) :
          /\ Split(CleanLine(lines[n]))[1] # last.args[1] \o <<":">>
          /\ last.outcome = "Jumped"
          /\ AtLine(n)

\* CRCT k1; CRCT k2; SOMA; IMPR
SumProgram(k1, k2) ==
    <<I1(OP_CRCT, k1), I1(OP_CRCT, k2), Line(<<OP_SOMA>>), Line(<<OP_IMPR>>)>>

\* The session has run the program to its end: run_all returned, or the
\* debug session is halted.
Finished == pc = "returned" \/ (pc = "debug" /\ halted)

\* C10: for all k1, k2 in -MaxVal..MaxVal the program CRCT k1; CRCT k2;
\* SOMA; IMPR, run from a fresh session, emits exactly the value k1 + k2
\* and ends with an empty operand stack.
C10_SumProgramPrintsSum ==
    \A k1 \in -MaxVal..MaxVal, k2 \in -MaxVal..MaxVal :
        (lines = Buffer(SumProgram(k1, k2)) /\ Finished) =>
            (output = <<k1 + k2>> /\ stack = <<>> /\ ~Failed)

\* Witness of C10: the program with two negative constants has been run to
\* its end by run_all.
C10_Witness ==
    /\ lines = Buffer(SumProgram(0 - MaxVal, -1))
    /\ pc = "returned"
    /\ output = <<0 - MaxVal - 1>>

\* q is the quotient of a by b rounded toward negative infinity.
IsFloorQuotient(q, a, b) ==
    IF b > 0 THEN q * b <= a /\ a < q * b + b
    ELSE q * b >= a /\ a > q * b + b

\* C11: DIVI on a (pushed earlier) and b (pushed later, b # 0) succeeds and
\* replaces the two operands by the quotient of a by b rounded toward
\* negative infinity, whatever the signs; SUBT replaces them by a - b; the
\* program CRCT -7; CRCT 2; DIVI; IMPR prints -4.
C11_DiviFloorsSubtOrdered ==
    /\ (Executed(OP_DIVI) /\ Len(last.stack) >= 2 /\ Top(last.stack) # 0) =>
          /\ last.outcome = "Fallthrough"
          /\ Len(stack) = Len(last.stack) - 1
          /\ Pop(stack) = Pop(Pop(last.stack))
          /\ IsFloorQuotient(Top(stack), Top(Pop(last.stack)), Top(last.stack))
    /\ (Executed(OP_SUBT) /\ Len(last.stack) >= 2) =>
          /\ last.outcome = "Fallthrough"
          /\ stack = Append(Pop(Pop(last.stack)),
                            Top(Pop(last.stack)) - Top(last.stack))
    /\ (lines = Buffer(DiviProgram) /\ Finished) => output = <<-4>>

\* A DIVI of a negative a by a positive b that does not divide it.
C11_Witness ==
    /\ Executed(OP_DIVI) /\ last.outcome = "Fallthrough"
    /\ Top(Pop(last.stack)) < 0 /\ Top(last.stack) > 0
    /\ Top(stack) * Top(last.stack) # Top(Pop(last.stack))

Mnemonics == ZeroOps \cup OneOps

\* The first instruction token of buffer line n as the user typed it: the
\* first word after the comment is cut and a leading label is dropped.
TypedOpcode(n) ==
    LET words == Split(CleanLine(lines[n])) IN
    IF words = <<>> THEN <<>>
    ELSE IF DefinesLabel(words)
    THEN (IF Len(words) > 1 THEN words[2] ELSE <<>>)
    ELSE words[1]

\* C12: a step on an instruction whose first token, uppercased, is not a
\* recognized mnemonic fails with UnknownOpcode, and the error names the
\* origin line of that instruction and the token (in upper case, as the
\* step decoded it); a step fails with UnknownOpcode in no other case, so
\* a mnemonic typed in lower or mixed case is recognized.
C12_UnknownOpcodeNamesLineAndToken ==
    (last.driver # "none" /\ last.line \in DOMAIN lines
       /\ TypedOpcode(last.line) # <<>>) =>
        LET op == Upper(TypedOpcode(last.line)) IN
        IF op \in Mnemonics
        THEN last.outcome # "UnknownOpcode"
        ELSE /\ last.outcome = "UnknownOpcode"
             /\ last.error = [line |-> last.line, token |-> op]

\* An unknown opcode typed in lower case has failed, and the step before
\* it executed a mnemonic typed in lower case.
C12_Witness ==
    /\ last.outcome = "UnknownOpcode"
    /\ TypedOpcode(last.line) # Upper(TypedOpcode(last.line))
    /\ last.error.token = W_FOOO
    /\ last.prev.outcome = "Fallthrough"
    /\ last.prev.op \in Mnemonics
    /\ \E n \in DOMAIN lines :
          /\ n < last.line
          /\ TypedOpcode(n) # last.prev.op
          /\ Upper(TypedOpcode(n)) = last.prev.op

\* C18: the output grows by exactly one value, the value popped from the
\* top of the stack, on a successful IMPR; every other opcode, every failed
\* step and every step requested while halted leave it as it was.
C18_OutputGrowsOnlyByImpr ==
    last.driver # "none" =>
        output = IF Executed(OP_IMPR) /\ last.outcome = "Fallthrough"
                 THEN Append(last.output, Top(last.stack))
                 ELSE last.output

\* A second value has been printed, by an IMPR that followed another
\* opcode's step.
C18_Witness ==
    /\ Executed(OP_IMPR) /\ last.outcome = "Fallthrough"
    /\ Len(last.output) = 1 /\ Len(output) = 2
    /\ output[2] = Top(last.stack)
    /\ last.prev.op = OP_CRCT

\* C20: after assembly the instructions are in strictly increasing order of
\* origin line, the line index maps exactly the origin lines of the
\* instructions, each to its 0-based position, and every line stored in
\* the label table is a key of the line index.
C20_AssemblyOrderedAndIndexed ==
    /\ \A i \in 1..(Len(instructions) - 1) :
          instructions[i][1] < instructions[i + 1][1]
    /\ DOMAIN line_to_index =
          {instructions[i][1] : i \in 1..Len(instructions)}
    /\ \A i \in 1..Len(instructions) :
          line_to_index[instructions[i][1]] = i - 1
    /\ \A k \in DOMAIN labels : labels[k] \in DOMAIN line_to_index

\* An assembled buffer with a line that yields no instruction before the
\* last instruction, and a label standing alone on its line.
C20_Witness ==
    /\ pc # "new"
    /\ Len(instructions) >= 3
    /\ \E n \in DOMAIN lines :
          /\ n \notin DOMAIN line_to_index
          /\ n < instructions[Len(instructions)][1]
    /\ \E k \in DOMAIN labels :
          instructions[line_to_index[labels[k]] + 1][2] = <<>>

\* The number of operands each mnemonic takes.
Arity(op) == IF op \in OneOps THEN 1 ELSE 0

\* C17: an instruction whose number of operands differs from the count its
\* opcode takes fails with MalformedOperand, for the one-operand opcodes
\* given zero or several operands and for the zero-operand opcodes given
\* one or more.
C17_WrongOperandCountIsMalformed ==
    (last.driver # "none" /\ last.op \in Mnemonics
       /\ Len(last.args) # Arity(last.op)) =>
        last.outcome = "MalformedOperand"

\* The part of C17 about the one-operand opcodes.
C17_OneOperandCountChecked ==
    (last.driver # "none" /\ last.op \in OneOps /\ Len(last.args) # 1) =>
        last.outcome = "MalformedOperand"

\* A zero-operand opcode given an operand has executed as if it had none.
C17_ExtraOperandIgnored ==
    /\ last.driver # "none" /\ last.op \in ZeroOps /\ Len(last.args) >= 1
    /\ last.outcome = "Fallthrough"

\* C13: in a debug session, once a step has failed the session is halted
\* and every later debug step of the session executes no instruction and
\* leaves the stack, the address space, the instruction pointer and the
\* output unchanged.
C13_FailedDebugSessionStaysHalted ==
    [][(pc = "debug" /\ Failed /\ steps' = steps + 1) =>
          /\ halted /\ halted'
          /\ UNCHANGED <<stack, memory, ip, output, last>>]_vars

\* Two debug steps have been requested after the failed one.
C13_Witness ==
    /\ pc = "debug" /\ Failed /\ halted
    /\ steps >= last.n + 2

\* What execute_step would leave if it were called now.
StepNow == ExecuteStep(stack, memory, ip, halted, instructions,
                       line_to_index, labels)

\* C19: once the engine is halted, a step is a no-op (it leaves the stack,
\* the address space and the instruction pointer unchanged, prints nothing
\* and leaves halted true), however many steps are requested, and halted
\* stays true until a new session is started.
C19_HaltedStepIsNoOp ==
    [][halted =>
          /\ StepNow.stack = stack /\ StepNow.memory = memory
          /\ StepNow.ip = ip /\ StepNow.halted /\ StepNow.printed = <<>>
          /\ (steps' = steps + 1 => UNCHANGED <<stack, memory, ip>>)
          /\ (halted' \/ (steps' = 0 /\ pc' \in {"run", "debug"}))]_vars

\* Two steps have been requested on a session that PARA halted before its
\* last instruction.
C19_Witness ==
    /\ pc = "debug" /\ halted
    /\ Executed(OP_PARA) /\ last.outcome = "Fallthrough"
    /\ ip < Len(instructions)
    /\ steps >= last.n + 2

\* The words of line n of the buffer src after the comment is cut.
SrcWords(src, n) == Split(CleanLine(src[n]))

\* Line n of src starts with a label definition.
SrcDefines(src, n) ==
    LET ws == SrcWords(src, n) IN
    /\ ws # <<>>
    /\ Len(ws[1]) > 1
    /\ ws[1][Len(ws[1])] = ":"

SrcLabel(src, n) ==
    LET w == SrcWords(src, n)[1] IN Upper(SubSeq(w, 1, Len(w) - 1))

\* instrs, lbls and l2i hold what the buffer src produces and nothing
\* else: one instruction for each line of src with a word left, holding
\* the words of that line without its label; one label for each label
\* name defined in src, at the greatest line defining it; one index entry
\* for each instruction.
AssemblyOf(src, instrs, lbls, l2i) ==
    /\ {instrs[i][1] : i \in 1..Len(instrs)} =
          {n \in DOMAIN src : SrcWords(src, n) # <<>>}
    /\ Len(instrs) = Cardinality({n \in DOMAIN src : SrcWords(src, n) # <<>>})
    /\ \A i \in 1..Len(instrs) :
          instrs[i][2] = IF SrcDefines(src, instrs[i][1])
                         THEN Tail(SrcWords(src, instrs[i][1]))
                         ELSE SrcWords(src, instrs[i][1])
    /\ DOMAIN lbls =
          {SrcLabel(src, n) : n \in {k \in DOMAIN src : SrcDefines(src, k)}}
    /\ \A k \in DOMAIN lbls :
          /\ lbls[k] \in DOMAIN src
          /\ SrcDefines(src, lbls[k]) /\ SrcLabel(src, lbls[k]) = k
          /\ \A n \in DOMAIN src :
                (SrcDefines(src, n) /\ SrcLabel(src, n) = k) => n <= lbls[k]
    /\ DOMAIN l2i = {instrs[i][1] : i \in 1..Len(instrs)}

\* A step that starts a run or debug session.
SessionStarts ==
    pc' \in {"run", "debug"} /\ steps' = 0 /\ lines' = lines

\* C14: every start of a run or debug session, whatever the earlier
\* session left, leaves the stack and the address space empty, the
\* instruction pointer 0, halted false and running true, and the
\* instruction sequence, label table and line index hold what the current
\* buffer contents produce and nothing else.
C14_SessionStartResets ==
    [][SessionStarts =>
          /\ stack' = <<>> /\ memory' = <<>> /\ ip' = 0
          /\ ~halted' /\ running'
          /\ AssemblyOf(lines', instructions', labels', line_to_index')]_vars

\* A session has just started on a buffer that lost a label since the
\* earlier session, which had failed and was halted when the buffer was
\* changed.
C14_Witness ==
    /\ pc \in {"run", "debug"} /\ steps = 0 /\ last = NoLast
    /\ lines = snapshot
    /\ seen.failed /\ seen.halted
    /\ DOMAIN seen.labels \ DOMAIN labels # {}
    /\ instructions # <<>>

\* A step inside a debug session in progress: a debug step or a buffer
\* operation, not the start of another session.
InProgress == pc = "debug" /\ pc' = "debug" /\ ~SessionStarts

\* The words of the instruction the snapshot holds at line n.
SnapshotInstr(n) ==
    IF SrcDefines(snapshot, n) THEN Tail(SrcWords(snapshot, n))
    ELSE SrcWords(snapshot, n)

\* C15: buffer operations interleaved with the steps of a debug session in
\* progress do not change the instruction sequence, the label table or
\* the line index, which stay those of the buffer contents the session
\* started from, and every step of the session fetches its instruction
\* from those contents.
C15_DebugSessionKeepsSnapshot ==
    [][InProgress =>
          /\ UNCHANGED <<instructions, labels, line_to_index>>
          /\ last' # last =>
                AssemblyOf(snapshot, instructions', labels', line_to_index')
          /\ (last' # last /\ last'.line # -1) =>
                /\ last'.line \in DOMAIN snapshot
                /\ SnapshotInstr(last'.line) # <<>> =>
                      /\ last'.op = Upper(SnapshotInstr(last'.line)[1])
                      /\ last'.args = Tail(SnapshotInstr(last'.line))]_vars

\* Two steps after the buffer lost its lines 20 and 30, the session has
\* executed the DSVS of a deleted line and jumped to a label the buffer no
\* longer defines.
C15_Witness ==
    /\ pc = "debug" /\ lines # snapshot
    /\ last.driver = "debug" /\ last.n >= seen.n + 2
    /\ last.op = OP_DSVS /\ last.outcome = "Jumped"
    /\ last.line \notin DOMAIN lines
    /\ \A n \in DOMAIN lines : ~SrcDefines(lines, n)

\* The assembled program has no PARA.
NoPara ==
    \A i \in 1..Len(instructions) :
        instructions[i][2] = <<>> \/ Upper(instructions[i][2][1]) # OP_PARA

\* run_all has stopped: by an exception, or by returning with the
\* instruction pointer past the last instruction.
RunEnded ==
    \/ pc = "raised"
    \/ pc = "returned" /\ ip >= Len(instructions)

\* C16: for every program without PARA whose execution raises no error,
\* run_all eventually stops, with the instruction pointer past the last
\* assembled instruction.
C16_RunWithoutParaEnds == (pc = "run" /\ NoPara) ~> RunEnded

\* No DSVS or DSVF of the program names its own line or an earlier one.
JumpsOnlyForward ==
    \A i \in 1..Len(instructions) :
        LET tk == instructions[i][2] IN
        (tk # <<>> /\ Len(tk) = 2 /\ Upper(tk[1]) \in {OP_DSVS, OP_DSVF}) =>
            \/ TargetLine(Strip(tk[2])) \notin AssembledLines
            \/ TargetLine(Strip(tk[2])) > instructions[i][1]

\* C16, amended: for every program without PARA and without a DSVS or DSVF
\* that names its own or an earlier line, whose execution raises no error,
\* run_all eventually stops, with the instruction pointer past the last
\* assembled instruction.
C16_ForwardRunWithoutParaEnds ==
    (pc = "run" /\ NoPara /\ JumpsOnlyForward) ~> RunEnded

\* run_all has returned from a program without PARA that took a forward
\* jump over two instructions.
C16_Witness ==
    /\ pc = "returned" /\ ip = Len(instructions)
    /\ NoPara /\ JumpsOnlyForward
    /\ Len(instructions) = 6 /\ steps = 4
    /\ \E i \in 1..Len(instructions) :
          /\ instructions[i][2] # <<>>
          /\ Upper(instructions[i][2][1]) = OP_DSVF
    /\ output = <<2>>

\* The buffer lines that define the label name k (in upper case), in any
\* casing.
Definitions(k) ==
    {n \in DOMAIN lines : SrcDefines(lines, n) /\ SrcLabel(lines, n) = k}

\* C21: a label name defined on several lines, in any casing, is no error
\* of the assembly: the label table binds the name to the largest of those
\* lines, and every jump to the name lands on the instruction of that
\* line.
C21_LastLabelDefinitionWins ==
    pc # "new" =>
        /\ \A n \in DOMAIN lines :
              SrcDefines(lines, n) => SrcLabel(lines, n) \in DOMAIN labels
        /\ \A k \in DOMAIN labels :
              /\ labels[k] \in Definitions(k)
              /\ \A n \in Definitions(k) : n <= labels[k]
        /\ (Taken /\ ~IsInt(last.args[1])
              /\ Cardinality(Definitions(Upper(last.args[1]))) >= 2) =>
              /\ last.outcome = "Jumped"
              /\ \A n \in Definitions(Upper(last.args[1])) :
                    n <= instructions[ip + 1][1]
              /\ instructions[ip + 1][1] \in Definitions(Upper(last.args[1]))

\* A jump has been taken to a label defined before and after it, in two
\* casings, and has landed on the later definition.
C21_Witness ==
    /\ Taken /\ last.outcome = "Jumped"
    /\ \E n1, n2 \in Definitions(Upper(last.args[1])) :
          /\ n1 < last.line /\ last.line < n2
          /\ SrcWords(lines, n1)[1] # SrcWords(lines, n2)[1]
          /\ AtLine(n2)

\* C22: in every reachable state of a session every address present in
\* the address space is a non-negative integer.
C22_AddressesNonNegative ==
    \A a \in DOMAIN memory : a >= 0

\* An ARMZ with a negative operand has succeeded and left an entry at that
\* address.
C22_NegativeAddressStored ==
    /\ Executed(OP_ARMZ) /\ last.outcome = "Fallthrough"
    /\ IntOf(last.args[1]) < 0
    /\ IntOf(last.args[1]) \in DOMAIN memory

\* The part of C22 about AMEM and DMEM: neither adds a negative address.
C22_AmemDmemAddNoNegative ==
    (last.driver # "none" /\ last.op \in {OP_AMEM, OP_DMEM, OP_CRVL}) =>
        \A a \in DOMAIN memory : a < 0 => a \in DOMAIN last.memory

\* The stack, address space, instruction pointer and output are those
\* run_all ends with on the buffer.
SameAsRunAll ==
    LET r == RunAllResult(lines) IN
    /\ stack = r.stack /\ memory = r.memory /\ ip = r.ip
    /\ output = r.output

\* C23: on every program, a debug session driven until it is halted and
\* run_all end with the same output, stack, address space and instruction
\* pointer, also when the program ends in an error.
C23_DebugAndRunAgree ==
    /\ (pc \in {"returned", "raised"}) =>
          /\ RunAllResult(lines).pc = pc
          /\ SameAsRunAll
    /\ (pc = "debug" /\ halted) =>
          /\ RunAllResult(lines).pc \in {"returned", "raised"}
          /\ SameAsRunAll
          /\ Failed <=> RunAllResult(lines).pc = "raised"

\* A debug session has been driven to the failure of its third
\* instruction, after a value was printed.
C23_Witness ==
    /\ pc = "debug" /\ halted /\ Failed
    /\ last.n >= 3 /\ output # <<>>
    /\ RunAllResult(lines).pc = "raised"

\* C24: a failed step changes neither the instruction pointer nor the
\* address space; it leaves the stack as it was before the instruction,
\* except that a DIVI failing on b = 0 has removed both operands and a
\* DSVF that met the condition 0 and an unresolved target has removed the
\* condition.
C24_FailedStepFrame ==
    Failed =>
        /\ ip = last.ip
        /\ memory = last.memory
        /\ stack =
              IF Executed(OP_DIVI) /\ last.outcome = "ArithmeticError"
              THEN Pop(Pop(last.stack))
              ELSE IF Executed(OP_DSVF) /\ last.outcome = "UnresolvedTarget"
              THEN Pop(last.stack)
              ELSE last.stack
        /\ (Executed(OP_DIVI) /\ last.outcome = "ArithmeticError") =>
              Len(last.stack) >= 2 /\ Top(last.stack) = 0
        /\ (Executed(OP_DSVF) /\ last.outcome = "UnresolvedTarget") =>
              last.stack # <<>> /\ Top(last.stack) = 0

\* A DSVF has failed on an unresolved target after removing the condition,
\* and the address an earlier ARMZ stored to is still there.
C24_Witness ==
    /\ Failed /\ Executed(OP_DSVF) /\ last.outcome = "UnresolvedTarget"
    /\ stack = Pop(last.stack) /\ stack # last.stack
    /\ memory # <<>> /\ memory = last.memory
    /\ ip = last.ip /\ ip > 0

\* A DIVI has failed on a zero divisor after removing both operands.
C24_DiviCase ==
    /\ Failed /\ Executed(OP_DIVI) /\ last.outcome = "ArithmeticError"
    /\ Len(stack) = Len(last.stack) - 2

====
